---- MODULE Spec2Model ----
(***************************************************************************)
(* Model of src/cv.py: a CV is read from disk (load_cv_text), the API key   *)
(* is resolved from the environment (load_api_key), the text is sent to    *)
(* the remote model and the reply is parsed as JSON (extract_cv_with_llm,  *)
(* extract_skills), and main prints the result.                            *)
(*                                                                         *)
(* Python values are modelled as follows.                                  *)
(*   - a str read from a file is a sequence of code points (integers);     *)
(*   - a bytes object is a sequence of integers 0..255;                    *)
(*   - a str that is scanned as JSON is a sequence of lexemes (strings):   *)
(*     punctuation, quoted string literals, number and word literals,      *)
(*     whitespace, and any other run of characters;                        *)
(*   - a decoded JSON value is a record [t, s, items] (see Py* below).     *)
(***************************************************************************)
EXTENDS Integers, Sequences, FiniteSets, TLC

\* ------------------------------------------------------------------ bounds
\* Longest reply text (in lexemes) that is enumerated exhaustively.
MaxLen == 4
\* Longest file content (in bytes) of a plain file.
MaxBytes == 3
\* Most pages of a PDF document, and longest text of one page.
MaxPages == 2
MaxPageLen == 1
\* Longest value of ANTHROPIC_API_KEY (in the process or in the .env file).
MaxKeyLen == 2

\* All sequences over S of length at most n.
RECURSIVE SeqsUpTo(_, _)
SeqsUpTo(S, n) ==
    IF n = 0 THEN {<<>>}
    ELSE LET shorter == SeqsUpTo(S, n - 1)
         IN  shorter \cup {Append(q, x) : q \in {r \in shorter : Len(r) = n - 1}, x \in S}

\* ------------------------------------------------------- decoded JSON values
PyNone == [t |-> "None", s |-> <<>>, items |-> <<>>]
PyBool(lex) == [t |-> "bool", s |-> <<lex>>, items |-> <<>>]
PyNumber(lex) == [t |-> "number", s |-> <<lex>>, items |-> <<>>]
PyStr(text) == [t |-> "str", s |-> text, items |-> <<>>]
PyList(values) == [t |-> "list", s |-> <<>>, items |-> values]
\* A dict keeps its pairs [k, v] in insertion order; keys are str texts.
PyDict(pairs) == [t |-> "dict", s |-> <<>>, items |-> pairs]

\* The truth value of `not x` for x a str or None.
Falsy(x) == x.t = "None" \/ (x.t = "str" /\ x.s = <<>>)

\* dict(pairs): a repeated key keeps its first position and its last value.
RECURSIVE DictOfPairs(_, _)
DictOfPairs(pairs, acc) ==
    IF pairs = <<>> THEN acc
    ELSE LET p == Head(pairs)
             hit == {i \in 1..Len(acc) : acc[i].k = p.k}
         IN  DictOfPairs(Tail(pairs),
                 IF hit = {} THEN Append(acc, p)
                 ELSE [i \in 1..Len(acc) |-> IF i \in hit THEN p ELSE acc[i]])

\* ------------------------------------------------------------ JSON lexemes
Whitespace == {" ", "\n"}
StringLiterals ==
    {"\"raw_response\"", "\"technical_skills\"", "\"professional_skills\"",
     "\"domain_skills\"", "\"Python\"", "\"Go\"", "\"Rust\"", "\"team leadership\""}
NumberLiterals == {"1", "-2.5"}
\* The text between the quotes of a string literal.
Unquote(lex) ==
    CASE lex = "\"raw_response\"" -> "raw_response"
      [] lex = "\"technical_skills\"" -> "technical_skills"
      [] lex = "\"professional_skills\"" -> "professional_skills"
      [] lex = "\"domain_skills\"" -> "domain_skills"
      [] lex = "\"Python\"" -> "Python"
      [] lex = "\"Go\"" -> "Go"
      [] lex = "\"Rust\"" -> "Rust"
      [] lex = "\"team leadership\"" -> "team leadership"

\* s[i], or "" past the end (Python's s[i:i+1]).
At(s, i) == IF i >= 1 /\ i <= Len(s) THEN s[i] ELSE ""

RECURSIVE SkipWhitespace(_, _)
SkipWhitespace(s, i) ==
    IF At(s, i) \in Whitespace THEN SkipWhitespace(s, i + 1) ELSE i

\* A scan result: the value and the index after it, or a decode error.
Scanned(v, e) == [ok |-> TRUE, val |-> v, end |-> e]
DecodeError == [ok |-> FALSE, val |-> PyNone, end |-> 0]

RECURSIVE scan_once(_, _)
RECURSIVE JSONObjectPairs(_, _, _)
RECURSIVE JSONArrayItems(_, _, _)

\* json.decoder.JSONObject after the opening brace: end is the index after it.
JSONObject(s, end) ==
    LET e1 == SkipWhitespace(s, end)
    IN  IF At(s, e1) = "}" THEN Scanned(PyDict(<<>>), e1 + 1)
        ELSE IF At(s, e1) \in StringLiterals THEN JSONObjectPairs(s, e1, <<>>)
        ELSE DecodeError

\* One "key": value pair starting at the key's literal, then "," or "}".
JSONObjectPairs(s, end, pairs) ==
    LET key == <<Unquote(At(s, end))>>
        colon == SkipWhitespace(s, end + 1)
    IN  IF At(s, colon) # ":" THEN DecodeError
        ELSE LET r == scan_once(s, SkipWhitespace(s, colon + 1))
             IN  IF ~r.ok THEN DecodeError
                 ELSE LET more == Append(pairs, [k |-> key, v |-> r.val])
                          e2 == SkipWhitespace(s, r.end)
                          e3 == SkipWhitespace(s, e2 + 1)
                      IN  IF At(s, e2) = "}"
                              THEN Scanned(PyDict(DictOfPairs(more, <<>>)), e2 + 1)
                          ELSE IF At(s, e2) # "," THEN DecodeError
                          ELSE IF At(s, e3) \in StringLiterals
                              THEN JSONObjectPairs(s, e3, more)
                          ELSE DecodeError

\* json.decoder.JSONArray after the opening bracket.
JSONArray(s, end) ==
    LET e1 == SkipWhitespace(s, end)
    IN  IF At(s, e1) = "]" THEN Scanned(PyList(<<>>), e1 + 1)
        ELSE JSONArrayItems(s, e1, <<>>)

JSONArrayItems(s, end, values) ==
    LET r == scan_once(s, end)
    IN  IF ~r.ok THEN DecodeError
        ELSE LET more == Append(values, r.val)
                 e2 == SkipWhitespace(s, r.end)
             IN  IF At(s, e2) = "]" THEN Scanned(PyList(more), e2 + 1)
                 ELSE IF At(s, e2) # "," THEN DecodeError
                 ELSE JSONArrayItems(s, SkipWhitespace(s, e2 + 1), more)

\* json.scanner.scan_once: the value that starts at idx.
scan_once(s, idx) ==
    LET c == At(s, idx)
    IN  CASE c \in StringLiterals -> Scanned(PyStr(<<Unquote(c)>>), idx + 1)
          [] c = "{" -> JSONObject(s, idx + 1)
          [] c = "[" -> JSONArray(s, idx + 1)
          [] c = "null" -> Scanned(PyNone, idx + 1)
          [] c \in {"true", "false"} -> Scanned(PyBool(c), idx + 1)
          [] c \in NumberLiterals -> Scanned(PyNumber(c), idx + 1)
          [] OTHER -> DecodeError

\* json.loads(s): one value, whitespace around it, and nothing after it.
json_loads(s) ==
    LET r == scan_once(s, SkipWhitespace(s, 1))
    IN  IF r.ok /\ SkipWhitespace(s, r.end) = Len(s) + 1 THEN r ELSE DecodeError

\* ------------------------------------------------------------- json.dumps
\* The indentation before an item at nesting depth `level` (indent=2).
RECURSIVE Indent(_)
Indent(level) == IF level = 0 THEN <<>> ELSE <<"  ">> \o Indent(level - 1)

\* A str between quotes: a quote inside it becomes \" and a newline \n;
\* ensure_ascii=False leaves every other lexeme as it is.
RECURSIVE EscapeText(_)
EscapeText(text) ==
    IF text = <<>> THEN <<>>
    ELSE LET lex == Head(text)
         IN  (CASE lex \in StringLiterals -> <<"\\\"", Unquote(lex), "\\\"">>
                [] lex = "\n" -> <<"\\n">>
                [] OTHER -> <<lex>>) \o EscapeText(Tail(text))
Quoted(text) == <<"\"">> \o EscapeText(text) \o <<"\"">>

RECURSIVE Dumps(_, _)
RECURSIVE DumpItems(_, _, _)
\* The items of a list or dict at depth `level`, each on its own line.
DumpItems(kind, items, level) ==
    LET first == Head(items)
        one == IF kind = "dict"
                   THEN Quoted(first.k) \o <<":", " ">> \o Dumps(first.v, level)
               ELSE Dumps(first, level)
    IN  <<"\n">> \o Indent(level) \o one
            \o (IF Len(items) = 1 THEN <<>>
                ELSE <<",">> \o DumpItems(kind, Tail(items), level))

\* json.dumps(v, indent=2, ensure_ascii=False) for a value nested at `level`.
Dumps(v, level) ==
    CASE v.t = "None" -> <<"null">>
      [] v.t \in {"bool", "number"} -> v.s
      [] v.t = "str" -> Quoted(v.s)
      [] v.t = "list" ->
            IF v.items = <<>> THEN <<"[]">>
            ELSE <<"[">> \o DumpItems("list", v.items, level + 1)
                     \o <<"\n">> \o Indent(level) \o <<"]">>
      [] v.t = "dict" ->
            IF v.items = <<>> THEN <<"{}">>
            ELSE <<"{">> \o DumpItems("dict", v.items, level + 1)
                     \o <<"\n">> \o Indent(level) \o <<"}">>

\* ---------------------------------------------------------------- pathlib
UpperCase == <<"A", "B", "C", "D", "E", "F", "G", "H", "I", "J", "K", "L", "M",
               "N", "O", "P", "Q", "R", "S", "T", "U", "V", "W", "X", "Y", "Z">>
LowerCase == <<"a", "b", "c", "d", "e", "f", "g", "h", "i", "j", "k", "l", "m",
               "n", "o", "p", "q", "r", "s", "t", "u", "v", "w", "x", "y", "z">>
\* str.lower() on a sequence of characters.
Lower(str) ==
    [i \in 1..Len(str) |->
        IF \E j \in 1..26 : UpperCase[j] = str[i]
        THEN LowerCase[CHOOSE j \in 1..26 : UpperCase[j] = str[i]]
        ELSE str[i]]

\* str.rfind(c): the last index of c (1-based), 0 when absent.
RFind(str, c) ==
    LET at == {i \in 1..Len(str) : str[i] = c}
    IN  IF at = {} THEN 0 ELSE CHOOSE i \in at : \A j \in at : j <= i

\* PurePath.name: the final component of the path.
PathName(path) == SubSeq(path, RFind(path, "/") + 1, Len(path))

\* PurePath.suffix: the last dot of the name and what follows it, unless the
\* dot starts or ends the name.
PathSuffix(path) ==
    LET name == PathName(path)
        i == RFind(name, ".")
    IN  IF 1 < i /\ i < Len(name) THEN SubSeq(name, i, Len(name)) ELSE <<>>

\* ------------------------------------------------------- reading a text file
\* bytes.decode("utf-8") for one- and two-byte forms (the bytes of FileBytes
\* below hold no lead byte of a longer form): code points, or a decode error.
RECURSIVE Utf8Decode(_)
Utf8Decode(bytes) ==
    IF bytes = <<>> THEN [ok |-> TRUE, text |-> <<>>]
    ELSE LET b == bytes[1]
         IN  IF b < 128
                 THEN LET r == Utf8Decode(Tail(bytes))
                      IN  [ok |-> r.ok, text |-> <<b>> \o r.text]
             ELSE IF /\ b >= 194 /\ b <= 223 /\ Len(bytes) >= 2
                     /\ bytes[2] >= 128 /\ bytes[2] <= 191
                 THEN LET r == Utf8Decode(SubSeq(bytes, 3, Len(bytes)))
                      IN  [ok |-> r.ok,
                           text |-> <<(b - 192) * 64 + (bytes[2] - 128)>> \o r.text]
             ELSE [ok |-> FALSE, text |-> <<>>]

\* Text mode with newline=None (the default of Path.read_text): "\r\n" and a
\* lone "\r" are read as "\n".
RECURSIVE UniversalNewlines(_)
UniversalNewlines(text) ==
    IF text = <<>> THEN <<>>
    ELSE IF text[1] = 13
        THEN IF Len(text) >= 2 /\ text[2] = 10
                 THEN <<10>> \o UniversalNewlines(SubSeq(text, 3, Len(text)))
             ELSE <<10>> \o UniversalNewlines(Tail(text))
    ELSE <<text[1]>> \o UniversalNewlines(Tail(text))

\* What a call gives back: a value, or an exception that propagates.
\* `opens` counts the files the call opened.
Exception(type, what) == [type |-> type, what |-> what]
Return(v, n) == [raised |-> PyNone, value |-> v, opens |-> n]
Raise(type, what, n) == [raised |-> Exception(type, what), value |-> PyNone, opens |-> n]

\* read_text with the file opened with newline="": nothing is translated.
read_text_Untranslated(entry) ==
    IF entry.kind = "dir" THEN Raise("IsADirectoryError", "", 1)
    ELSE LET d == Utf8Decode(entry.bytes)
         IN  IF d.ok THEN Return(PyStr(d.text), 1)
             ELSE Raise("UnicodeDecodeError", "", 1)

\* Path.read_text(encoding="utf-8") on a file-system entry.
read_text(entry) ==
    IF entry.kind = "dir" THEN Raise("IsADirectoryError", "", 1)
    ELSE LET d == Utf8Decode(entry.bytes)
         IN  IF d.ok THEN Return(PyStr(UniversalNewlines(d.text)), 1)
             ELSE Raise("UnicodeDecodeError", "", 1)

\* ---------------------------------------------------------- load_cv_text
\* ConcatPages with a newline put after every page.
RECURSIVE ConcatPages_Newline(_, _)
ConcatPages_Newline(pages, text) ==
    IF pages = <<>> THEN text
    ELSE ConcatPages_Newline(Tail(pages), text \o Head(pages) \o <<10>>)

\* The loop over reader.pages: text += page.extract_text().
RECURSIVE ConcatPages(_, _)
ConcatPages(pages, text) ==
    IF pages = <<>> THEN text
    ELSE ConcatPages(Tail(pages), text \o Head(pages))

\* The .pdf branch: import PyPDF2, open the file, read every page.
read_pdf(entry, installed) ==
    IF ~installed THEN Raise("CVExtractorError", "DependencyMissing", 0)
    ELSE IF entry.kind = "dir" THEN Raise("IsADirectoryError", "", 1)
    ELSE IF ~entry.is_pdf THEN Raise("PdfReadError", "", 1)
    ELSE Return(PyStr(ConcatPages(entry.pages, <<>>)), 1)

txt == <<".", "t", "x", "t">>
pdf == <<".", "p", "d", "f">>

\* load_cv_text with the extension dispatched before the existence check.
load_cv_text_SuffixFirst(path, entry, installed) ==
    IF Lower(PathSuffix(path)) \notin {txt, pdf}
        THEN Raise("CVExtractorError", "UnsupportedFormat", 0)
    ELSE IF entry.kind = "missing" THEN Raise("CVExtractorError", "NotFound", 0)
    ELSE IF Lower(PathSuffix(path)) = txt THEN read_text(entry)
    ELSE read_pdf(entry, installed)

\* load_cv_text with the suffix compared as written, without lower().
load_cv_text_CaseSensitive(path, entry, installed) ==
    IF entry.kind = "missing" THEN Raise("CVExtractorError", "NotFound", 0)
    ELSE IF PathSuffix(path) = txt THEN read_text(entry)
    ELSE IF PathSuffix(path) = pdf THEN read_pdf(entry, installed)
    ELSE Raise("CVExtractorError", "UnsupportedFormat", 0)

load_cv_text(path, entry, installed) ==
    IF entry.kind = "missing" THEN Raise("CVExtractorError", "NotFound", 0)
    ELSE IF Lower(PathSuffix(path)) = txt THEN read_text(entry)
    ELSE IF Lower(PathSuffix(path)) = pdf THEN read_pdf(entry, installed)
    ELSE Raise("CVExtractorError", "UnsupportedFormat", 0)

\* ---------------------------------------------------------- load_api_key
\* The .env file: absent, or present with or without a line for the key
\* (PyNone when the file has no such line).
NoEnvFile == [present |-> FALSE, ANTHROPIC_API_KEY |-> PyNone]
EnvFile(v) == [present |-> TRUE, ANTHROPIC_API_KEY |-> v]

\* load_dotenv() followed by os.getenv: a variable the process already has
\* is not overridden by the file.
load_dotenv(env, file) ==
    IF ~file.present THEN env
    ELSE IF env.t # "None" THEN env
    ELSE file.ANTHROPIC_API_KEY

\* load_api_key that rejects only an unset variable (`is None`).
load_api_key_NoneOnly(env, file) ==
    LET api_key == load_dotenv(env, file)
    IN  IF api_key.t = "None" THEN Raise("CVExtractorError", "MissingCredential", 0)
        ELSE Return(api_key, 0)

load_api_key(env, file) ==
    LET api_key == load_dotenv(env, file)
    IN  IF Falsy(api_key) THEN Raise("CVExtractorError", "MissingCredential", 0)
        ELSE Return(api_key, 0)

\* ------------------------------------------------------ extract_cv_with_llm
Model == "claude-3-haiku-20240307"
MaxTokens == 2048
\* The fixed instruction of extract_skills.
Prompt == "Extract all skills from this CV. ... Return ONLY valid JSON ..."
Separator == "\n\n---CV CONTENT---\n\n"

\* The arguments of client.messages.create: one user message whose content is
\* the prompt, the separator and the CV text, in this order.
CreateArgs(cv_text, key, prompt) ==
    [api_key |-> key, model |-> Model, max_tokens |-> MaxTokens,
     messages |-> <<[role |-> "user", content |-> <<prompt, Separator, cv_text.s>>]>>]

\* The keys of a dict, as a set.
Keys(d) == {d.items[i].k : i \in 1..Len(d.items)}
SkillKeys == {<<"technical_skills">>, <<"professional_skills">>, <<"domain_skills">>}
RawDict(text) == PyDict(<<[k |-> <<"raw_response">>, v |-> PyStr(text)]>>)

\* ParseResponse with the surrounding whitespace of the raw text stripped
\* in the fallback.
RECURSIVE RStrip(_)
RStrip(text) ==
    IF text # <<>> /\ text[Len(text)] \in Whitespace
        THEN RStrip(SubSeq(text, 1, Len(text) - 1))
    ELSE text
ParseResponse_Stripped(response_text) ==
    LET r == json_loads(response_text)
    IN  IF r.ok THEN r.val
        ELSE RawDict(RStrip(SubSeq(response_text, SkipWhitespace(response_text, 1),
                                   Len(response_text))))

\* ParseResponse with the expected keys validated: anything but a dict with
\* the three skill keys falls back to the raw text.
ParseResponse_Validated(response_text) ==
    LET r == json_loads(response_text)
    IN  IF r.ok /\ r.val.t = "dict" /\ Keys(r.val) = SkillKeys THEN r.val
        ELSE RawDict(response_text)

\* try: json.loads(response_text)  except JSONDecodeError: the raw text.
ParseResponse(response_text) ==
    LET r == json_loads(response_text)
    IN  IF r.ok THEN r.val
        ELSE RawDict(response_text)

\* What follows the return of client.messages.create: message.content[0].text
\* and the parse. `content` is the sequence of the message's text blocks.
AfterCreate(content) ==
    IF content = <<>> THEN Raise("IndexError", "", 0)
    ELSE Return(ParseResponse(content[1]), 0)

\* What the client library raises when the request fails.
APIErrors == {Exception("APIConnectionError", ""), Exception("APIStatusError", "")}

\* ------------------------------------------------------------------ inputs
\* Reply texts: every text of at most MaxLen lexemes over Alphabet, and the
\* longer texts of Samples.
Alphabet == {"{", "}", "[", "]", ":", ",", "\"raw_response\"", "1"}
Samples ==
    { <<"Not", " ", "JSON", " ", "at", " ", "all">>,
      <<"{", "\"technical_skills\"", ":", " ", "[", "\"Python\"", "]", ",", " ",
        "\"professional_skills\"", ":", " ", "[", "]", ",", " ",
        "\"domain_skills\"", ":", " ", "[", "]", "}">>,
      <<"{", "\"technical_skills\"", ":", "[", "\"Go\"", ",", "\"Rust\"", "]", ",",
        "\"professional_skills\"", ":", "[", "\"team leadership\"", "]", ",",
        "\"domain_skills\"", ":", "[", "]", "}">>,
      <<"Here", " ", "is", " ", "the", " ", "JSON", ":", "\n",
        "{", "\"technical_skills\"", ":", "[", "]", "}">>,
      <<"{", "\"technical_skills\"", ":", "[", "\"Python\"", "]", "}", "\n">>,
      <<"{", "\"raw_response\"", ":", "\"Python\"", ",", "\"Go\"", ":", "null", "}">>,
      <<"{", "\"Go\"", ":", "1", ",", "\"Rust\"", ":", "true", ",",
        "\"Go\"", ":", "-2.5", "}">>,
      <<"{", "\"technical_skills\"", ":", "[", "\"Python\"", ",", "]", "}">>,
      <<"[", "{", "\"domain_skills\"", ":", "[", "]", "}", "]">>,
      <<"\"raw_response\"", "\n", "1">>,
      <<" ", "Not", " ", "JSON", "\n">> }
ReplyTexts == SeqsUpTo(Alphabet, MaxLen) \cup Samples
\* The text blocks of a reply: none, one, or one followed by a second block.
Contents ==
    {<<>>} \cup {<<text>> : text \in ReplyTexts}
           \cup {<<text, <<"1">>>> : text \in Samples}

\* The values of ANTHROPIC_API_KEY: unset, or a string of at most MaxKeyLen
\* characters (the empty string included).
KeyValues == {PyNone} \cup {PyStr(k) : k \in SeqsUpTo({"s", "k"}, MaxKeyLen)}
EnvFiles == {NoEnvFile} \cup {EnvFile(v) : v \in KeyValues}

\* File-system entries: nothing, a directory, a plain file with its bytes, or
\* a PDF document with the text of its pages.
FileBytes == {97, 13, 10, 195, 169}
PageChars == {97, 98}
PdfBytes == <<37, 80, 68, 70, 255>>
Missing == [kind |-> "missing", bytes |-> <<>>, is_pdf |-> FALSE, pages |-> <<>>]
Directory == [kind |-> "dir", bytes |-> <<>>, is_pdf |-> FALSE, pages |-> <<>>]
PlainFile(b) == [kind |-> "file", bytes |-> b, is_pdf |-> FALSE, pages |-> <<>>]
PdfFile(p) == [kind |-> "file", bytes |-> PdfBytes, is_pdf |-> TRUE, pages |-> p]
Entries ==
    {Missing, Directory}
        \cup {PlainFile(b) : b \in SeqsUpTo(FileBytes, MaxBytes)}
        \cup {PdfFile(p) : p \in SeqsUpTo(SeqsUpTo(PageChars, MaxPageLen), MaxPages)}

\* Paths, as sequences of characters.
Stem == <<"c", "v">>
Extensions ==
    {<<".", a, b, c>> : a \in {"t", "T"}, b \in {"x", "X"}, c \in {"t", "T"}}
        \cup {<<".", a, b, c>> : a \in {"p", "P"}, b \in {"d", "D"}, c \in {"f", "F"}}
        \cup { <<>>, <<".">>, <<".", "d", "o", "c", "x">>, <<".", "t", "x">>,
               <<".", "p", "d", "f", "x">>, <<".", "t", "x", "t", ".", "b", "a", "k">>,
               <<".", "d", "o", "c", ".", "P", "d", "f">> }
bolu_pdf == <<"b", "o", "l", "u", ".", "p", "d", "f">>
Paths ==
    {Stem \o e : e \in Extensions}
        \cup { bolu_pdf, <<".", "t", "x", "t">>, <<".", "p", "d", "f">>,
               <<"a", ".", "t", "x", "t", "/", "c", "v">>,
               <<"a", ".", "b", "/", "c", "v", ".", "T", "x", "t">> }

\* ------------------------------------------------------------------- state
VARIABLES
    pc,         \* position of the run: the stage that comes next
    environ,    \* os.environ["ANTHROPIC_API_KEY"], PyNone when unset
    dotenv,     \* the .env file
    cv_path,    \* the path given to load_cv_text
    entry,      \* what the file system holds at cv_path
    PyPDF2,     \* whether PyPDF2 can be imported
    api_key,    \* main's api_key
    cv_text,    \* main's cv_text
    opens,      \* how many times the file at cv_path was opened
    requests,   \* the requests sent to the remote API, in order
    reply,      \* the text blocks of the message received
    result,     \* main's result
    stdout,     \* what was printed, one element per print()
    raised      \* the exception that ended the run, PyNone when none

vars == <<pc, environ, dotenv, cv_path, entry, PyPDF2, api_key, cv_text, opens,
          requests, reply, result, stdout, raised>>

\* Nothing has run yet.
Fresh ==
    /\ api_key = PyNone
    /\ cv_text = PyNone
    /\ opens = 0
    /\ requests = <<>>
    /\ reply = <<>>
    /\ result = PyNone
    /\ stdout = <<>>
    /\ raised = PyNone

\* A run of main: bolu.pdf, in a few worlds.
MainKeyValues == {PyNone, PyStr(<<>>), PyStr(<<"s">>)}
MainEnvFiles == {NoEnvFile, EnvFile(PyStr(<<"k">>))}
MainEntries == {Missing, PlainFile(<<97>>), PdfFile(<<>>), PdfFile(<<<<97>>, <<98>>>>)}
Init ==
    /\ pc = "load_api_key"
    /\ environ \in MainKeyValues
    /\ dotenv \in MainEnvFiles
    /\ cv_path = bolu_pdf
    /\ entry \in MainEntries
    /\ PyPDF2 \in BOOLEAN
    /\ Fresh

\* MainFlow with the exception of a stage swallowed: the next stage runs.
MainFlow_NoAbort(stage, exc) ==
    CASE stage = "load_api_key" -> "load_cv_text"
      [] stage = "load_cv_text" -> "extract_skills"
      [] stage = "extract_skills" -> "messages_create"
      [] stage = "messages_create" -> IF exc # PyNone THEN "failed" ELSE "print"
      [] stage = "print" -> "done"

\* main: the stage that follows `stage`; an exception leaves main at once.
MainFlow(stage, exc) ==
    IF exc # PyNone THEN "failed"
    ELSE CASE stage = "load_api_key" -> "load_cv_text"
           [] stage = "load_cv_text" -> "extract_skills"
           [] stage = "extract_skills" -> "messages_create"
           [] stage = "messages_create" -> "print"
           [] stage = "print" -> "done"

\* api_key = load_api_key()
LoadApiKey ==
    /\ pc = "load_api_key"
    /\ LET r == load_api_key(environ, dotenv)
       IN  /\ environ' = load_dotenv(environ, dotenv)
           /\ api_key' = r.value
           /\ raised' = r.raised
           /\ pc' = MainFlow(pc, r.raised)
    /\ UNCHANGED <<dotenv, cv_path, entry, PyPDF2, cv_text, opens, requests, reply,
                   result, stdout>>

\* cv_text = load_cv_text(cv_pdf_path)
LoadCvText ==
    /\ pc = "load_cv_text"
    /\ LET r == load_cv_text(cv_path, entry, PyPDF2)
       IN  /\ cv_text' = r.value
           /\ opens' = opens + r.opens
           /\ raised' = r.raised
           /\ pc' = MainFlow(pc, r.raised)
    /\ UNCHANGED <<environ, dotenv, cv_path, entry, PyPDF2, api_key, requests, reply,
                   result, stdout>>

\* extract_skills -> extract_cv_with_llm: client.messages.create sends the
\* request and blocks until the reply or the failure.
CreateMessage ==
    /\ pc = "extract_skills"
    /\ requests' = Append(requests, CreateArgs(cv_text, api_key, Prompt))
    /\ pc' = MainFlow(pc, PyNone)
    /\ UNCHANGED <<environ, dotenv, cv_path, entry, PyPDF2, api_key, cv_text, opens,
                   reply, result, stdout, raised>>

\* CreateFails with one retry: the first failure sends the request again.
CreateFails_Retry ==
    /\ pc = "messages_create"
    /\ \E e \in APIErrors :
          IF Len(requests) < 2
              THEN /\ pc' = "extract_skills"
                   /\ raised' = raised
              ELSE /\ pc' = "failed"
                   /\ raised' = e
    /\ UNCHANGED <<environ, dotenv, cv_path, entry, PyPDF2, api_key, cv_text, opens,
                   requests, reply, result, stdout>>

\* The request fails: the client's exception leaves extract_cv_with_llm.
CreateFails ==
    /\ pc = "messages_create"
    /\ \E e \in APIErrors :
          /\ raised' = e
          /\ pc' = MainFlow(pc, e)
    /\ UNCHANGED <<environ, dotenv, cv_path, entry, PyPDF2, api_key, cv_text, opens,
                   requests, reply, result, stdout>>

\* The message arrives: response_text = message.content[0].text, then the parse.
CreateReturns ==
    /\ pc = "messages_create"
    /\ \E content \in Contents :
          LET r == AfterCreate(content)
          IN  /\ reply' = content
              /\ result' = r.value
              /\ raised' = r.raised
              /\ pc' = MainFlow(pc, r.raised)
    /\ UNCHANGED <<environ, dotenv, cv_path, entry, PyPDF2, api_key, cv_text, opens,
                   requests, stdout>>

\* print(json.dumps(result, indent=2, ensure_ascii=False))
PrintResult ==
    /\ pc = "print"
    /\ stdout' = Append(stdout, Dumps(result, 0) \o <<"\n">>)
    /\ pc' = MainFlow(pc, PyNone)
    /\ UNCHANGED <<environ, dotenv, cv_path, entry, PyPDF2, api_key, cv_text, opens,
                   requests, reply, result, raised>>

Next ==
    \/ LoadApiKey
    \/ LoadCvText
    \/ CreateMessage
    \/ CreateFails
    \/ CreateReturns
    \/ PrintResult

Spec == Init /\ [][Next]_vars

\* load_api_key alone, on every environment and .env file.
InitKey ==
    /\ pc = "load_api_key"
    /\ environ \in KeyValues
    /\ dotenv \in EnvFiles
    /\ cv_path = bolu_pdf
    /\ entry = Missing
    /\ PyPDF2 = FALSE
    /\ Fresh

NextKey == LoadApiKey

SpecKey == InitKey /\ [][NextKey]_vars

\* load_cv_text alone, on every path and file-system entry.
InitLoad ==
    /\ pc = "load_cv_text"
    /\ environ = PyStr(<<"s">>)
    /\ dotenv = NoEnvFile
    /\ cv_path \in Paths
    /\ entry \in Entries
    /\ PyPDF2 \in BOOLEAN
    /\ Fresh

NextLoad == LoadCvText

SpecLoad == InitLoad /\ [][NextLoad]_vars

\* ------------------------------------------------------------------ claims
\* The run has received a message with at least one text block.
Replied == pc \in {"print", "done"}
ResponseText == reply[1]

\* C1: for every response the model can return, the result of extract_skills
\* is a mapping, and its keys are either exactly technical_skills,
\* professional_skills and domain_skills, or exactly raw_response.
C1_ResultIsOneOfTwoShapes ==
    Replied =>
        /\ result.t = "dict"
        /\ Keys(result) = SkillKeys \/ Keys(result) = {<<"raw_response">>}

\* C2: when the response text does not parse as JSON, extract_skills raises
\* nothing and returns exactly {"raw_response": <the unmodified text>}, and
\* the run goes on to the print step instead of aborting.
C2_FallbackOnParseFailure ==
    (pc \in {"print", "done", "failed"} /\ reply # <<>> /\ ~json_loads(ResponseText).ok) =>
        /\ raised = PyNone
        /\ pc \in {"print", "done"}
        /\ result = RawDict(ResponseText)
        /\ pc = "print" => ENABLED PrintResult
        /\ pc = "done" => Len(stdout) = 1

C2_Witness ==
    /\ pc = "done"
    /\ ResponseText = <<"Not", " ", "JSON", " ", "at", " ", "all">>
    /\ result = RawDict(<<"Not", " ", "JSON", " ", "at", " ", "all">>)
    /\ Len(stdout) = 1

\* The nesting depth of position i of a text: brackets opened before i and
\* not yet closed.
Depth(text, i) ==
    Cardinality({j \in 1..(i - 1) : text[j] \in {"{", "["}})
        - Cardinality({j \in 1..(i - 1) : text[j] \in {"}", "]"}})
\* The member names written at the top level of a text that holds an object:
\* the string literals at depth one that a colon follows.
WrittenKeys(text) ==
    {<<Unquote(text[i])>> : i \in {j \in 1..Len(text) :
        /\ text[j] \in StringLiterals
        /\ Depth(text, j) = 1
        /\ At(text, SkipWhitespace(text, j + 1)) = ":"}}
FirstLexeme(text) == At(text, SkipWhitespace(text, 1))

\* C3: when the response text parses as JSON, extract_skills returns the
\* parsed value unchanged: the value json.loads gives, an object with exactly
\* the member names the text writes, and a raw_response key only when the
\* text itself writes one.
C3_ParsedPassthrough ==
    (Replied /\ json_loads(ResponseText).ok) =>
        /\ result = json_loads(ResponseText).val
        /\ (result.t = "dict") = (FirstLexeme(ResponseText) = "{")
        /\ result.t = "dict" => Keys(result) = WrittenKeys(ResponseText)
        /\ (result.t = "dict" /\ <<"raw_response">> \in Keys(result)) =>
               \E i \in 1..Len(ResponseText) : ResponseText[i] = "\"raw_response\""

C3_Witness ==
    /\ pc = "done"
    /\ json_loads(ResponseText).ok
    /\ result.t = "dict"
    /\ Len(result.items) = 3
    /\ result.items[1] =
           [k |-> <<"technical_skills">>, v |-> PyList(<<PyStr(<<"Python">>)>>)]
    /\ result.items[2] = [k |-> <<"professional_skills">>, v |-> PyList(<<>>)]
    /\ result.items[3] = [k |-> <<"domain_skills">>, v |-> PyList(<<>>)]

\* C8: a run sends at most one request; when the request fails the client's
\* error leaves the run as it is: not retried, not turned into the domain
\* error, not downgraded to a raw_response result, nothing printed.
C8_OneRequestNoRetry ==
    /\ Len(requests) <= 1
    /\ pc \in {"messages_create", "print", "done"} => Len(requests) = 1
    /\ raised \in APIErrors =>
          /\ pc = "failed"
          /\ Len(requests) = 1
          /\ raised.type # "CVExtractorError"
          /\ result = PyNone
          /\ stdout = <<>>
          /\ ~ENABLED Next

C8_Witness ==
    /\ pc = "failed"
    /\ raised = Exception("APIConnectionError", "")
    /\ Len(requests) = 1

MissingCredential == Exception("CVExtractorError", "MissingCredential")
NotFound == Exception("CVExtractorError", "NotFound")
UnsupportedFormat == Exception("CVExtractorError", "UnsupportedFormat")
DependencyMissing == Exception("CVExtractorError", "DependencyMissing")

\* C9: the stages of main run in the order credential, file, remote call,
\* parse, print, and a failure aborts the run before any later stage: no file
\* is opened without a credential, no request is sent without a credential
\* and a text, the result is printed at most once and only after the reply,
\* and a missing credential is what is reported whatever the file.
C9_StagesInOrder ==
    /\ opens > 0 => ~Falsy(api_key)
    /\ requests # <<>> => ~Falsy(api_key) /\ cv_text # PyNone
    /\ reply # <<>> => requests # <<>>
    /\ Len(stdout) <= 1
    /\ stdout # <<>> =>
          /\ Len(requests) = 1
          /\ reply # <<>>
          /\ raised = PyNone
          /\ pc = "done"
    /\ raised # PyNone <=> pc = "failed"
    /\ pc = "failed" => stdout = <<>> /\ ~ENABLED Next
    /\ (pc # "load_api_key" /\ Falsy(environ)) =>
          /\ raised = MissingCredential
          /\ opens = 0
          /\ requests = <<>>
    /\ raised \in {NotFound, UnsupportedFormat, DependencyMissing} => requests = <<>>

C9_Witness ==
    /\ pc = "failed"
    /\ Falsy(environ)
    /\ entry = Missing
    /\ raised = MissingCredential
    /\ opens = 0

\* C6: load_api_key fails with MissingCredential exactly when the variable is
\* unset or empty once the .env file has been loaded, and otherwise returns
\* the variable's value; an absent .env file is no error.
C6_MissingCredential ==
    pc # "load_api_key" =>
        /\ Falsy(environ) => raised = MissingCredential /\ api_key = PyNone
        /\ ~Falsy(environ) => raised = PyNone /\ api_key = environ
        /\ raised # PyNone => raised = MissingCredential
        /\ (~dotenv.present /\ environ.t = "str" /\ environ.s # <<>>) => raised = PyNone

C6_Witness ==
    /\ pc = "failed"
    /\ environ = PyStr(<<>>)
    /\ dotenv = EnvFile(PyStr(<<"k">>))
    /\ raised = MissingCredential

\* The suffixes .txt and .pdf in every letter case.
TxtAnyCase == {<<".", a, b, c>> : a \in {"t", "T"}, b \in {"x", "X"}, c \in {"t", "T"}}
PdfAnyCase == {<<".", a, b, c>> : a \in {"p", "P"}, b \in {"d", "D"}, c \in {"f", "F"}}
\* The path ends with one of `exts` and a name of at least one character
\* comes before it.
HasExtension(path, exts) ==
    \E e \in exts :
        /\ Len(path) > Len(e)
        /\ SubSeq(path, Len(path) - Len(e) + 1, Len(path)) = e
        /\ path[Len(path) - Len(e)] # "/"
Called == pc # "load_cv_text"

\* C4: for a path that does not exist, whatever its extension, load_cv_text
\* fails with NotFound and with nothing else, and opens no file.
C4_NotFoundFirst ==
    (Called /\ entry.kind = "missing") =>
        /\ raised = NotFound
        /\ cv_text = PyNone
        /\ opens = 0

C4_Witness ==
    /\ Called
    /\ entry.kind = "missing"
    /\ cv_path = Stem \o <<".", "d", "o", "c", "x">>
    /\ raised = NotFound

\* C5: for an existing path, load_cv_text fails with UnsupportedFormat,
\* without opening the file, when the extension is neither .txt nor .pdf in
\* any letter case, and does not fail with UnsupportedFormat when it is.
C5_UnsupportedFormat ==
    (Called /\ entry.kind # "missing") =>
        IF HasExtension(cv_path, TxtAnyCase \cup PdfAnyCase)
            THEN raised # UnsupportedFormat
        ELSE raised = UnsupportedFormat /\ opens = 0 /\ cv_text = PyNone

C5_Witness ==
    /\ Called
    /\ cv_path = Stem \o <<".", "T", "X", "t">>
    /\ entry = PlainFile(<<97>>)
    /\ raised = PyNone
    /\ cv_text = PyStr(<<97>>)

\* str.encode("utf-8") for code points below 2048.
RECURSIVE Utf8Encode(_)
Utf8Encode(text) ==
    IF text = <<>> THEN <<>>
    ELSE (IF text[1] < 128 THEN <<text[1]>>
          ELSE <<192 + (text[1] \div 64), 128 + (text[1] % 64)>>)
             \o Utf8Encode(Tail(text))
\* The bytes with every CR LF pair and every other CR replaced by one LF.
RECURSIVE LfOnly(_)
LfOnly(bytes) ==
    IF bytes = <<>> THEN <<>>
    ELSE IF bytes[1] = 13
        THEN <<10>> \o LfOnly(SubSeq(bytes, IF Len(bytes) >= 2 /\ bytes[2] = 10 THEN 3 ELSE 2,
                                     Len(bytes)))
    ELSE <<bytes[1]>> \o LfOnly(Tail(bytes))
\* An existing .txt file whose bytes are valid UTF-8 has been read.
ReadTxt ==
    /\ Called
    /\ entry.kind = "file"
    /\ HasExtension(cv_path, TxtAnyCase)
    /\ Utf8Decode(entry.bytes).ok

\* C7 as stated: the text returned for a .txt file, encoded as UTF-8, is the
\* file's bytes, line endings such as CR LF included.
C7_ByteForByte ==
    ReadTxt => raised = PyNone /\ cv_text.t = "str" /\ Utf8Encode(cv_text.s) = entry.bytes

\* C7 as amended: the text returned for a .txt file of valid UTF-8 is the
\* decoded content with every CR LF and every lone CR read as one LF, nothing
\* else added, dropped or translated; encoded as UTF-8 it is the file's bytes
\* when the file holds no CR.
C7_DecodedWithNewlinesTranslated ==
    ReadTxt =>
        /\ raised = PyNone
        /\ opens = 1
        /\ cv_text.t = "str"
        /\ Utf8Encode(cv_text.s) = LfOnly(entry.bytes)
        /\ (\A i \in 1..Len(entry.bytes) : entry.bytes[i] # 13) =>
               Utf8Encode(cv_text.s) = entry.bytes

C7_Witness ==
    /\ ReadTxt
    /\ entry.bytes = <<195, 169, 13>>
    /\ cv_text = PyStr(<<233, 10>>)

\* Where page k starts in the concatenation of the pages.
RECURSIVE PageStart(_, _)
PageStart(pages, k) ==
    IF k = 1 THEN 0 ELSE PageStart(pages, k - 1) + Len(pages[k - 1])

\* C10: for an existing PDF with pages p1..pn, load_cv_text returns
\* text(p1) + ... + text(pn), in order and with nothing between the pages,
\* when PyPDF2 is available, and fails with DependencyMissing, returning no
\* text, when it is not.
C10_PdfPagesConcatenated ==
    (Called /\ entry.kind = "file" /\ entry.is_pdf /\ HasExtension(cv_path, PdfAnyCase)) =>
        IF PyPDF2
            THEN /\ raised = PyNone
                 /\ cv_text.t = "str"
                 /\ Len(cv_text.s) = PageStart(entry.pages, Len(entry.pages) + 1)
                 /\ \A k \in 1..Len(entry.pages) : \A j \in 1..Len(entry.pages[k]) :
                        cv_text.s[PageStart(entry.pages, k) + j] = entry.pages[k][j]
        ELSE /\ raised = DependencyMissing
             /\ cv_text = PyNone
             /\ opens = 0

C10_Witness ==
    /\ Called
    /\ PyPDF2
    /\ cv_path = Stem \o <<".", "P", "d", "f">>
    /\ entry = PdfFile(<<<<97>>, <<98>>>>)
    /\ cv_text = PyStr(<<97, 98>>)

====
